---- MODULE Spec2Model ----
(***************************************************************************)
(* A model of nino (src/nino.py): the Editor buffer/cursor/viewport engine *)
(* and the session loop of main() with its prompt sub-loop prompt_input(). *)
(*                                                                         *)
(* Text is a sequence of one-character strings; a buffer is a sequence of  *)
(* such lines.  Python indexes from 0, TLA+ from 1: lines[cy] is written   *)
(* LineAt(lines, cy).  A state of the model is the program at a getch()    *)
(* call (or after the loop has ended): every action is one key event's     *)
(* handler followed by the refresh_screen() that runs before the next      *)
(* getch().                                                                *)
(*                                                                         *)
(*   ed      the Editor object (status_msg is <<kind, file name>>, the     *)
(*           name being the one the message or the OSError text carries;   *)
(*           prompt_msg is <<prompt, typed text>>)                         *)
(*   mode    "Editing" (in main's loop) or "Prompting" (in prompt_input)   *)
(*   prompt  prompt_input's `prompt` argument                              *)
(*   buffer  prompt_input's `buffer`                                       *)
(*   term    "running", "quit" (SystemExit broke the loop) or "crashed"    *)
(*           (an exception left main)                                      *)
(*   h, w    the terminal size refresh_screen last read                    *)
(*   hist, saved   history: the content at the last successful save/load   *)
(*   fx      the fixture of the specifications that drive Editor methods   *)
(*           or the file round trip directly; main()'s session leaves it   *)
(*           alone                                                         *)
(***************************************************************************)
EXTENDS Integers, Sequences, FiniteSets, TLC

VARIABLES ed, mode, prompt, buffer, term, h, w, hist, saved, fx

vars == <<ed, mode, prompt, buffer, term, h, w, hist, saved, fx>>

(* ---------------------------------------------------------------- bounds *)

\* The buffer's text (characters plus line separators) never grows beyond this.
MaxText == 2

\* The prompt's accumulated text never grows beyond this.
MaxAccum == 2

\* Printable characters typed while editing.
Chars == {"a", "b"}

\* Printable characters typed at a prompt (the space is what strip() removes).
PromptChars == {" ", "f"}

\* The line terminator of a file's text.
NL == "\n"

\* A carriage return and a form feed, as a file's bytes may hold them.
CR == "\r"

FF == "\f"

\* The characters at which str.splitlines() cuts a text that read() returned
\* (of "\v", "\f", "\x1c".."\x1e", "\x85", "\u2028", "\u2029" only the form feed
\* is kept here).
LineBoundaries == {NL, FF}

\* The characters of a file on disk, and the longest file of the round trip.
RawChars == {"a", NL, CR, FF}

MaxRaw == 3

\* The lines of the buffers the method-level fixture starts from, and the most
\* lines such a buffer has.
FnLineValues == {<<>>, <<"a">>, <<"a", "b">>}

MaxFnLines == 3

\* scroll_into_view() is called with cursor and offsets up to MaxPos (and with
\* the cursor in row 50) on screens of these sizes.
MaxPos == 3

ScrollScreens == {<<1, 1>>, <<2, 2>>, <<3, 2>>, <<10, 20>>}

\* Terminal sizes (height, width) that getmaxyx() reports.
ScreenSizes == {<<2, 2>>, <<3, 2>>}

(* --------------------------------------------------------------- helpers *)

Max(a, b) == IF a >= b THEN a ELSE b

\* Python's s[i:j] for 0 <= i, on a sequence.
Slice(s, i, j) == SubSeq(s, i + 1, IF j > Len(s) THEN Len(s) ELSE j)

\* Python's s[i:].
From(s, i) == SubSeq(s, i + 1, Len(s))

\* lines[i]; the empty line stands for an index outside the buffer.
LineAt(lines, i) == IF i + 1 \in DOMAIN lines THEN lines[i + 1] ELSE <<>>

\* del lines[i]
DelAt(lines, i) == SubSeq(lines, 1, i) \o SubSeq(lines, i + 2, Len(lines))

\* lines[i] = v
SetAt(lines, i, v) == [lines EXCEPT ![i + 1] = v]

RECURSIVE SumLen(_)
SumLen(lines) == IF lines = <<>> THEN 0 ELSE Len(Head(lines)) + SumLen(Tail(lines))

\* The length of "\n".join(lines).
TextLen(lines) == SumLen(lines) + Len(lines) - 1

(* ---------------------------------------------------------------- Editor *)

\* filename None (and every falsy name) is the empty sequence.
None == <<>>

\* Editor(): the dataclass defaults, with the status main() sets at start.
NewEditor ==
    [filename |-> None, lines |-> << <<>> >>, cx |-> 0, cy |-> 0,
     rowoff |-> 0, coloff |-> 0, dirty |-> FALSE,
     status_msg |-> <<"help", <<>> >>, prompt_msg |-> <<"", <<>> >>]

set_status(e, msg) == [e EXCEPT !.status_msg = msg]

set_prompt(e, msg) == [e EXCEPT !.prompt_msg = msg]

\* clamp_cursor() without its clamp of cx.
clamp_cursor_cy_only(e) ==
    LET cy1 == IF e.cy < 0 THEN 0 ELSE e.cy
        cy2 == IF cy1 >= Len(e.lines) THEN Len(e.lines) - 1 ELSE cy1
    IN  [e EXCEPT !.cy = cy2]

clamp_cursor(e) ==
    LET cy1 == IF e.cy < 0 THEN 0 ELSE e.cy
        cy2 == IF cy1 >= Len(e.lines) THEN Len(e.lines) - 1 ELSE cy1
        line_len == Len(LineAt(e.lines, cy2))
        cx1 == IF e.cx < 0 THEN 0 ELSE e.cx
        cx2 == IF cx1 > line_len THEN line_len ELSE cx1
    IN  [e EXCEPT !.cy = cy2, !.cx = cx2]

\* scroll_into_view() as if it scrolled one row or column too few when the
\* cursor is past the window.
scroll_into_view_short(e, screen_h, screen_w) ==
    LET text_h == Max(1, screen_h - 1)
        text_w == Max(1, screen_w)
        ro == IF e.cy < e.rowoff THEN e.cy
              ELSE IF e.cy >= e.rowoff + text_h THEN e.cy - text_h
              ELSE e.rowoff
        co == IF e.cx < e.coloff THEN e.cx
              ELSE IF e.cx >= e.coloff + text_w THEN e.cx - text_w
              ELSE e.coloff
    IN  [e EXCEPT !.rowoff = ro, !.coloff = co]

scroll_into_view(e, screen_h, screen_w) ==
    LET text_h == Max(1, screen_h - 1)
        text_w == Max(1, screen_w)
        ro == IF e.cy < e.rowoff THEN e.cy
              ELSE IF e.cy >= e.rowoff + text_h THEN e.cy - text_h + 1
              ELSE e.rowoff
        co == IF e.cx < e.coloff THEN e.cx
              ELSE IF e.cx >= e.coloff + text_w THEN e.cx - text_w + 1
              ELSE e.coloff
    IN  [e EXCEPT !.rowoff = ro, !.coloff = co]

\* insert_char() without its dirty mark.
insert_char_clean(e, c) ==
    LET line == LineAt(e.lines, e.cy)
    IN  [e EXCEPT !.lines = SetAt(e.lines, e.cy,
                                 Slice(line, 0, e.cx) \o <<c>> \o From(line, e.cx)),
                  !.cx = e.cx + 1]

insert_char(e, c) ==
    LET line == LineAt(e.lines, e.cy)
    IN  [e EXCEPT !.lines = SetAt(e.lines, e.cy,
                                 Slice(line, 0, e.cx) \o <<c>> \o From(line, e.cx)),
                  !.cx = e.cx + 1,
                  !.dirty = TRUE]

\* insert_newline() without its dirty mark.
insert_newline_clean(e) ==
    LET line == LineAt(e.lines, e.cy)
        left == Slice(line, 0, e.cx)
        right == From(line, e.cx)
    IN  [e EXCEPT !.lines = SubSeq(e.lines, 1, e.cy) \o <<left, right>>
                                \o SubSeq(e.lines, e.cy + 2, Len(e.lines)),
                  !.cy = e.cy + 1,
                  !.cx = 0]

insert_newline(e) ==
    LET line == LineAt(e.lines, e.cy)
        left == Slice(line, 0, e.cx)
        right == From(line, e.cx)
    IN  [e EXCEPT !.lines = SubSeq(e.lines, 1, e.cy) \o <<left, right>>
                            \o SubSeq(e.lines, e.cy + 2, Len(e.lines)),
                  !.cy = e.cy + 1,
                  !.cx = 0,
                  !.dirty = TRUE]

\* backspace() as if it removed the character under the cursor.
backspace_under_cursor(e) ==
    IF e.cx > 0
    THEN LET line == LineAt(e.lines, e.cy)
         IN  [e EXCEPT !.lines = SetAt(e.lines, e.cy, Slice(line, 0, e.cx) \o From(line, e.cx + 1)),
                       !.cx = e.cx - 1,
                       !.dirty = TRUE]
    ELSE e

backspace(e) ==
    IF e.cx > 0 THEN
        LET line == LineAt(e.lines, e.cy)
        IN  [e EXCEPT !.lines = SetAt(e.lines, e.cy,
                                     Slice(line, 0, e.cx - 1) \o From(line, e.cx)),
                      !.cx = e.cx - 1,
                      !.dirty = TRUE]
    ELSE IF e.cy > 0 THEN
        LET prev == LineAt(e.lines, e.cy - 1)
            cur == LineAt(e.lines, e.cy)
            new_cx == Len(prev)
        IN  [e EXCEPT !.lines = DelAt(SetAt(e.lines, e.cy - 1, prev \o cur), e.cy),
                      !.cy = e.cy - 1,
                      !.cx = new_cx,
                      !.dirty = TRUE]
    ELSE e

\* delete() as if it set dirty on every call.
delete_always_dirty(e) ==
    LET line == LineAt(e.lines, e.cy)
    IN  IF e.cx < Len(line)
        THEN [e EXCEPT !.lines = SetAt(e.lines, e.cy, Slice(line, 0, e.cx) \o From(line, e.cx + 1)),
                       !.dirty = TRUE]
        ELSE IF e.cy < Len(e.lines) - 1
        THEN [e EXCEPT !.lines = DelAt(SetAt(e.lines, e.cy, line \o LineAt(e.lines, e.cy + 1)), e.cy + 1),
                       !.dirty = TRUE]
        ELSE [e EXCEPT !.dirty = TRUE]

delete(e) ==
    LET line == LineAt(e.lines, e.cy)
    IN  IF e.cx < Len(line) THEN
            [e EXCEPT !.lines = SetAt(e.lines, e.cy,
                                     Slice(line, 0, e.cx) \o From(line, e.cx + 1)),
                      !.dirty = TRUE]
        ELSE IF e.cy < Len(e.lines) - 1 THEN
            [e EXCEPT !.lines = DelAt(SetAt(e.lines, e.cy,
                                           line \o LineAt(e.lines, e.cy + 1)),
                                     e.cy + 1),
                      !.dirty = TRUE]
        ELSE e

move_left(e) ==
    IF e.cx > 0 THEN [e EXCEPT !.cx = e.cx - 1]
    ELSE IF e.cy > 0 THEN
        [e EXCEPT !.cy = e.cy - 1, !.cx = Len(LineAt(e.lines, e.cy - 1))]
    ELSE e

move_right(e) ==
    LET line_len == Len(LineAt(e.lines, e.cy))
    IN  IF e.cx < line_len THEN [e EXCEPT !.cx = e.cx + 1]
        ELSE IF e.cy < Len(e.lines) - 1 THEN [e EXCEPT !.cy = e.cy + 1, !.cx = 0]
        ELSE e

move_up(e) == IF e.cy > 0 THEN [e EXCEPT !.cy = e.cy - 1] ELSE e

\* move_down() as if it also put the cursor at the start of the line.
move_down_to_start(e) ==
    IF e.cy < Len(e.lines) - 1 THEN [e EXCEPT !.cy = e.cy + 1, !.cx = 0] ELSE e

move_down(e) == IF e.cy < Len(e.lines) - 1 THEN [e EXCEPT !.cy = e.cy + 1] ELSE e

move_home(e) == [e EXCEPT !.cx = 0]

move_end(e) == [e EXCEPT !.cx = Len(LineAt(e.lines, e.cy))]

\* What read() returns for a file opened in text mode (universal newlines):
\* "\r\n" and a lone "\r" arrive as "\n".
RECURSIVE read_text(_)
read_text(raw) ==
    IF raw = <<>> THEN <<>>
    ELSE IF Head(raw) = CR
         THEN IF Len(raw) > 1 /\ raw[2] = NL
              THEN <<NL>> \o read_text(SubSeq(raw, 3, Len(raw)))
              ELSE <<NL>> \o read_text(Tail(raw))
         ELSE <<Head(raw)>> \o read_text(Tail(raw))

\* Python's str.splitlines(): the text is cut at every line boundary, and a
\* boundary that ends the text opens no further line.
RECURSIVE splitlines(_)
splitlines(text) ==
    IF text = <<>> THEN <<>>
    ELSE LET brk == {i \in 1..Len(text) : text[i] \in LineBoundaries}
         IN  IF brk = {} THEN <<text>>
             ELSE LET i == CHOOSE j \in brk : \A k \in brk : j <= k
                  IN  <<SubSeq(text, 1, i - 1)>> \o splitlines(SubSeq(text, i + 1, Len(text)))

\* "\n".join(lines), the text save_file() writes.
RECURSIVE to_text(_)
to_text(lines) ==
    IF lines = <<>> THEN <<>>
    ELSE IF Len(lines) = 1 THEN lines[1]
         ELSE lines[1] \o <<NL>> \o to_text(Tail(lines))

\* load_file() without the fallback for a file that holds no line.
load_file_no_fallback(e, filename, text) ==
    [e EXCEPT !.lines = splitlines(text),
              !.filename = filename,
              !.cx = 0,
              !.cy = 0,
              !.rowoff = 0,
              !.coloff = 0,
              !.dirty = FALSE]

\* load_file() without the assignment of the filename.
load_file_unnamed(e, filename, text) ==
    LET contents == splitlines(text)
    IN  [e EXCEPT !.lines = IF contents # <<>> THEN contents ELSE << <<>> >>,
                  !.cx = 0,
                  !.cy = 0,
                  !.rowoff = 0,
                  !.coloff = 0,
                  !.dirty = FALSE]

\* load_file() without the assignment that clears dirty.
load_file_keeps_dirty(e, filename, text) ==
    LET contents == splitlines(text)
    IN  [e EXCEPT !.lines = IF contents # <<>> THEN contents ELSE << <<>> >>,
                  !.filename = filename,
                  !.cx = 0,
                  !.cy = 0,
                  !.rowoff = 0,
                  !.coloff = 0]

\* load_file() once open() and read() have succeeded with `text`.
load_file(e, filename, text) ==
    LET contents == splitlines(text)
    IN  [e EXCEPT !.lines = IF contents # <<>> THEN contents ELSE << <<>> >>,
                  !.filename = filename,
                  !.cx = 0,
                  !.cy = 0,
                  !.rowoff = 0,
                  !.coloff = 0,
                  !.dirty = FALSE]

\* load_file() as if the cursor and viewport were reset before the file is read.
load_failed_reset(e, filename) ==
    [e EXCEPT !.cx = 0, !.cy = 0, !.rowoff = 0, !.coloff = 0]

\* save_file() as if the filename were assigned before the file is written.
save_failed_named(e, filename) ==
    [e EXCEPT !.filename = IF filename # None THEN filename ELSE e.filename]

\* load_file() when open() or read() raises: the with statement is left before
\* any field is assigned.
load_failed(e, filename) == e

\* save_file() when open() or write() raises: the with statement is left before
\* filename and dirty are assigned.
save_failed(e, filename) == e

\* save_file() once open() and write() have succeeded.
save_file(e, filename) ==
    LET target == IF filename # None THEN filename ELSE e.filename
    IN  [e EXCEPT !.filename = target, !.dirty = FALSE]

\* str.strip() on text typed at the prompt, where the only whitespace is " ".
RECURSIVE lstrip(_)
lstrip(s) == IF s # <<>> /\ Head(s) = " " THEN lstrip(Tail(s)) ELSE s

RECURSIVE rstrip(_)
rstrip(s) == IF s # <<>> /\ s[Len(s)] = " " THEN rstrip(SubSeq(s, 1, Len(s) - 1)) ELSE s

strip(s) == rstrip(lstrip(s))

(* ---------------------------------------------------------------- render *)

\* The number of content rows refresh_screen() draws.
DrawnRows(screen_h) == Max(1, screen_h - 2)

\* refresh_screen(): the viewport offsets its loop over the content rows draws
\* with, read from the editor as the key handler left it.
drawn_offsets(e) == [rowoff |-> e.rowoff, coloff |-> e.coloff]

\* refresh_screen(): what it does to the editor (the drawing itself is output).
refresh_screen(e, screen_h, screen_w) ==
    scroll_into_view(clamp_cursor(e), screen_h, screen_w)

\* Whether refresh_screen() places the cursor at (cy - rowoff, cx - coloff)
\* rather than at the fallback position (0, 0).
CursorPlaced(e, screen_h, screen_w) ==
    LET screen_x == e.cx - e.coloff
        screen_y == e.cy - e.rowoff
    IN  /\ 0 <= screen_y /\ screen_y < DrawnRows(screen_h)
        /\ 0 <= screen_x /\ screen_x < screen_w

(* --------------------------------------------------------------- session *)

NoPrompt == <<"", <<>> >>

\* The texts of the files that can be opened: an empty file, one line with and
\* without its terminator, and a blank line followed by an unterminated line.
FileTexts == {<<>>, <<"a">>, <<"a", NL>>, <<NL, "b">>}

\* The state at the first getch() of main().  `saved` is a history variable: the
\* buffer content at the last successful save or load (the initial buffer before
\* any), kept up to date in the behaviours that start with hist = TRUE.
Start ==
    /\ \E size \in ScreenSizes : h = size[1] /\ w = size[2]
    /\ ed = refresh_screen(NewEditor, h, w)
    /\ mode = "Editing"
    /\ prompt = ""
    /\ buffer = <<>>
    /\ term = "running"
    /\ saved = NewEditor.lines

\* The fixture while main()'s session runs.
NoFixture == [pc |-> "session"]

Init == Start /\ hist = FALSE /\ fx = NoFixture

InitHist == Start /\ hist = TRUE /\ fx = NoFixture

\* The history variable after a successful save or load that leaves `lines`.
Recorded(lines) == IF hist THEN lines ELSE saved

\* A key of process_key() that only calls an Editor method, leaving `e`.
Edit(e) ==
    /\ term = "running"
    /\ mode = "Editing"
    /\ ed' = refresh_screen(e, h, w)
    /\ UNCHANGED <<mode, prompt, buffer, term, h, w, hist, fx, saved>>

KeyLeft == Edit(move_left(ed))

KeyRight == Edit(move_right(ed))

KeyUp == Edit(move_up(ed))

KeyDown == Edit(move_down(ed))

KeyHome == Edit(move_home(ed))

KeyEnd == Edit(move_end(ed))

KeyBackspace == Edit(backspace(ed))

KeyDelete == Edit(delete(ed))

KeyEnter ==
    /\ TextLen(ed.lines) < MaxText
    /\ Edit(insert_newline(ed))

KeyChar ==
    \E c \in Chars :
        /\ TextLen(ed.lines) < MaxText
        /\ Edit(insert_char(ed, c))

\* Any key process_key() ignores (Escape among them), and the -1 of a getch()
\* that timed out.
KeyIgnored == Edit(ed)

\* KEY_RESIZE: getch() reports a new terminal size; neither loop interprets the key.
KeyResize ==
    /\ term = "running"
    /\ \E size \in ScreenSizes \ {<<h, w>>} : h' = size[1] /\ w' = size[2]
    /\ ed' = refresh_screen(ed, h', w')
    /\ UNCHANGED <<mode, prompt, buffer, term, hist, fx, saved>>

\* Ctrl+Q in process_key(): SystemExit breaks the loop of main().
KeyQuit ==
    /\ term = "running"
    /\ mode = "Editing"
    /\ term' = "quit"
    /\ UNCHANGED <<ed, mode, prompt, buffer, h, w, hist, fx, saved>>

\* prompt_input() up to its first getch().
EnterPrompt(text) ==
    /\ term = "running"
    /\ mode = "Editing"
    /\ mode' = "Prompting"
    /\ prompt' = text
    /\ buffer' = <<>>
    /\ ed' = refresh_screen(set_prompt(ed, <<text, <<>> >>), h, w)
    /\ UNCHANGED <<term, h, w, hist, fx, saved>>

\* The save of main() on editor `e`: save_file(name) raises OSError or succeeds.
DoSave(e, name) ==
    LET target == IF name # None THEN name ELSE e.filename
    IN  /\ \/ /\ ed' = refresh_screen(
                         set_status(save_file(e, name), <<"Wrote", target>>), h, w)
              /\ saved' = Recorded(e.lines)
           \/ /\ ed' = refresh_screen(
                         set_status(save_failed(e, name), <<"Save failed", target>>),
                         h, w)
              /\ saved' = saved
        /\ term' = term

\* The open of main() on editor `e`: load_file(name) reads a text, raises OSError,
\* or raises UnicodeDecodeError, which no handler of main() catches.
DoOpen(e, name) ==
    \/ \E text \in FileTexts :
          /\ ed' = refresh_screen(
                     set_status(load_file(e, name, text), <<"Opened", name>>), h, w)
          /\ saved' = Recorded(load_file(e, name, text).lines)
          /\ term' = term
    \/ /\ ed' = refresh_screen(
                  set_status(load_failed(e, name), <<"Open failed", name>>), h, w)
       /\ saved' = saved
       /\ term' = term
    \/ /\ ed' = load_failed(e, name)
       /\ saved' = saved
       /\ term' = "crashed"

\* Ctrl+S: RuntimeError("SAVE") caught by main().
\* The SAVE branch of main() as if it asked for a name every time.
KeySave_AlwaysPrompts == EnterPrompt("Save as: ")

KeySave ==
    \/ /\ ed.filename # None
       /\ term = "running"
       /\ mode = "Editing"
       /\ DoSave(ed, None)
       /\ UNCHANGED <<mode, prompt, buffer, h, w, hist, fx>>
    \/ /\ ed.filename = None
       /\ EnterPrompt("Save as: ")

\* Ctrl+O: RuntimeError("OPEN") caught by main().
KeyOpen == EnterPrompt("Open: ")

\* One pass of prompt_input()'s loop that does not return, leaving `buf`.
PromptStep(buf) ==
    /\ term = "running"
    /\ mode = "Prompting"
    /\ buffer' = buf
    /\ ed' = refresh_screen(set_prompt(ed, <<prompt, buf>>), h, w)
    /\ UNCHANGED <<mode, prompt, term, h, w, hist, fx, saved>>

\* Backspace at the prompt as if the key also reached process_key().
PromptBackspace_AlsoEdits ==
    /\ term = "running"
    /\ mode = "Prompting"
    /\ buffer' = (IF buffer # <<>> THEN SubSeq(buffer, 1, Len(buffer) - 1) ELSE buffer)
    /\ ed' = refresh_screen(backspace(set_prompt(ed, <<prompt, buffer'>>)), h, w)
    /\ UNCHANGED <<mode, prompt, term, h, w, hist, fx, saved>>

PromptBackspace ==
    PromptStep(IF buffer # <<>> THEN SubSeq(buffer, 1, Len(buffer) - 1) ELSE buffer)

PromptChar ==
    \E c \in PromptChars :
        /\ Len(buffer) < MaxAccum
        /\ PromptStep(Append(buffer, c))

\* Any other key at the prompt (arrows, Home, End, Delete, Ctrl+S, Ctrl+O, Ctrl+Q,
\* unmapped keys), and the -1 of a getch() that timed out.
PromptIgnored == PromptStep(buffer)

\* prompt_input() returned `name` (None when cancelled): the rest of main()'s handler.
Commit(name) ==
    /\ term = "running"
    /\ mode = "Prompting"
    /\ mode' = "Editing"
    /\ prompt' = ""
    /\ buffer' = <<>>
    /\ UNCHANGED <<h, w, hist, fx>>
    /\ LET e == set_prompt(ed, NoPrompt)
       IN  IF name = None
           THEN /\ ed' = refresh_screen(
                           set_status(e, <<IF prompt = "Save as: " THEN "Save cancelled"
                                           ELSE "Open cancelled", <<>> >>), h, w)
                /\ UNCHANGED <<term, saved>>
           ELSE IF prompt = "Save as: " THEN DoSave(e, name) ELSE DoOpen(e, name)

\* Enter at the prompt without the strip().
PromptEnter_NoStrip == Commit(buffer)

PromptEnter == Commit(strip(buffer))

PromptEscape == Commit(None)

Next ==
    \/ KeyLeft \/ KeyRight \/ KeyUp \/ KeyDown \/ KeyHome \/ KeyEnd
    \/ KeyBackspace \/ KeyDelete \/ KeyEnter \/ KeyChar
    \/ KeyIgnored \/ KeyResize \/ KeyQuit \/ KeySave \/ KeyOpen
    \/ PromptBackspace \/ PromptChar \/ PromptIgnored
    \/ PromptEnter \/ PromptEscape

Spec == Init /\ [][Next]_vars

\* The same program, with the history variable `saved` recorded.
SpecHist == InitHist /\ [][Next]_vars

(* ------------------------------------------------------------ round trip *)

\* The session's variables while a fixture drives the Editor directly.
session == <<ed, mode, prompt, buffer, term, hist, saved>>

Parked ==
    /\ ed = NewEditor
    /\ mode = "Editing"
    /\ prompt = ""
    /\ buffer = <<>>
    /\ term = "running"
    /\ hist = FALSE
    /\ saved = NewEditor.lines

\* The files of the round trip: every text of at most MaxRaw characters.
RawTexts == UNION {[1..n -> RawChars] : n \in 0..MaxRaw}

\* A file on disk is opened into a fresh Editor and saved without an edit:
\* fx.raw is the file before, fx.out the file after.
InitRoundTrip ==
    /\ Parked
    /\ \E size \in ScreenSizes : h = size[1] /\ w = size[2]
    /\ \E raw \in RawTexts : fx = [pc |-> "file", raw |-> raw, e |-> NewEditor, out |-> <<>>]

RtOpen ==
    /\ fx.pc = "file"
    /\ fx' = [fx EXCEPT !.pc = "loaded",
                        !.e = refresh_screen(load_file(fx.e, <<"f">>, read_text(fx.raw)), h, w)]
    /\ UNCHANGED <<session, h, w>>

RtSave ==
    /\ fx.pc = "loaded"
    /\ fx' = [fx EXCEPT !.pc = "saved",
                        !.e = refresh_screen(save_file(fx.e, None), h, w),
                        !.out = to_text(fx.e.lines)]
    /\ UNCHANGED <<session, h, w>>

NextRoundTrip ==
    \/ RtOpen
    \/ RtSave

SpecRoundTrip == InitRoundTrip /\ [][NextRoundTrip]_vars

(* ---------------------------------------------------------- Editor methods *)

\* The buffers the fixture starts from.
FnBuffers == UNION {[1..n -> FnLineValues] : n \in 1..MaxFnLines}

\* The Editor as a frame has left it on a screen of the given size: any buffer,
\* the cursor inside it, the viewport holding the cursor, either dirty flag.
FnEditors(screen_h, screen_w) ==
    {e \in [filename : {None}, lines : FnBuffers,
            cx : 0..2, cy : 0..(MaxFnLines - 1),
            rowoff : 0..(MaxFnLines - 1), coloff : 0..2,
            dirty : BOOLEAN,
            status_msg : {NewEditor.status_msg}, prompt_msg : {NoPrompt}] :
        /\ e.cy < Len(e.lines)
        /\ e.cx <= Len(LineAt(e.lines, e.cy))
        /\ refresh_screen(e, screen_h, screen_w) = e}

\* Two Editor methods are called on such an Editor, each followed by the frame
\* refresh_screen() draws: fx.e is the Editor, fx.op the method called last and
\* fx.e0 the Editor before it, fx.op0 and fx.e00 the same one call earlier,
\* fx.frame the offsets the content rows of the last frame were drawn with.
InitFn ==
    /\ Parked
    /\ \E size \in ScreenSizes : h = size[1] /\ w = size[2]
    /\ \E e \in FnEditors(h, w) :
          fx = [pc |-> "editor", e |-> e, frame |-> drawn_offsets(e),
                op |-> "none", e0 |-> e, op0 |-> "none", e00 |-> e]

FnStep(name, f) ==
    /\ fx.pc = "editor"
    /\ fx.op0 = "none"
    /\ fx' = [pc |-> "editor",
              e |-> refresh_screen(f, h, w), frame |-> drawn_offsets(f),
              op |-> name, e0 |-> fx.e, op0 |-> fx.op, e00 |-> fx.e0]
    /\ UNCHANGED <<session, h, w>>

FnInsertChar == \E c \in Chars : FnStep("insert_char", insert_char(fx.e, c))

FnBackspace == FnStep("backspace", backspace(fx.e))

FnDelete == FnStep("delete", delete(fx.e))

FnMoveUp == FnStep("move_up", move_up(fx.e))

FnMoveDown == FnStep("move_down", move_down(fx.e))

NextFn ==
    \/ FnInsertChar
    \/ FnBackspace
    \/ FnDelete
    \/ FnMoveUp
    \/ FnMoveDown

SpecFn == InitFn /\ [][NextFn]_vars

(* ------------------------------------------------------- scroll_into_view *)

\* scroll_into_view(h, w) is called once on an Editor whose cursor and offsets
\* are arbitrary: fx.e0 is the Editor before the call, fx.e after it.
InitScroll ==
    /\ Parked
    /\ \E size \in ScrollScreens : h = size[1] /\ w = size[2]
    /\ \E cy \in (0..MaxPos) \cup {50}, cx \in 0..MaxPos,
          rowoff \in 0..MaxPos, coloff \in 0..MaxPos :
          LET e == [NewEditor EXCEPT !.cy = cy, !.cx = cx,
                                     !.rowoff = rowoff, !.coloff = coloff]
          IN  fx = [pc |-> "args", e |-> e, e0 |-> e]

ScrollCall ==
    /\ fx.pc = "args"
    /\ fx' = [pc |-> "returned", e |-> scroll_into_view(fx.e, h, w), e0 |-> fx.e]
    /\ UNCHANGED <<session, h, w>>

SpecScroll == InitScroll /\ [][ScrollCall]_vars

(* ---------------------------------------------------------------- claims *)

\* C1: in every reachable state the buffer holds at least one line.
C1_BufferNeverEmpty == Len(ed.lines) >= 1

\* An empty file has been opened, and its single empty line edited since.
C1_Witness ==
    /\ ed.status_msg[1] = "Opened"
    /\ ed.dirty
    /\ ed.lines = << <<>> >>

\* C2: whenever a key event is about to be dispatched (the session is running and
\* the render pass before getch() has run), the cursor is inside the buffer:
\* 0 <= cy < len(lines) and 0 <= cx <= len(lines[cy]).
C2_CursorInBounds ==
    term = "running" =>
        /\ 0 <= ed.cy /\ ed.cy < Len(ed.lines)
        /\ 0 <= ed.cx /\ ed.cx <= Len(LineAt(ed.lines, ed.cy))

\* The cursor is at the end of a last line that is shorter than the first line:
\* the place a vertical move from a longer line is clamped to.
C2_Witness ==
    /\ term = "running"
    /\ Len(ed.lines) > 1
    /\ ed.cy = Len(ed.lines) - 1
    /\ ed.cx = Len(LineAt(ed.lines, ed.cy))
    /\ Len(LineAt(ed.lines, 0)) > ed.cx

\* C3 as stated: dirty is true if and only if the buffer content differs from the
\* content at the last successful save or load (the initial buffer before any).
C3_DirtyIffDiffers == ed.dirty <=> (ed.lines # saved)

\* C3 as amended: whenever the buffer content differs from the content at the last
\* successful save or load, dirty is true (dirty may also be true while they are
\* equal: every mutation sets it, and edits can cancel out).
C3_DirtyIfDiffers == (ed.lines # saved) => ed.dirty

\* A named buffer has been edited away from what was last saved or loaded.
C3_Witness ==
    /\ hist
    /\ ed.filename # None
    /\ ed.lines # saved
    /\ ed.dirty

\* C4 as stated: after every render pass the cursor lies inside the rectangle of
\* content rows the render draws, rowoff <= cy < rowoff + R with R the number of
\* rows drawn, and coloff <= cx < coloff + width, so it is placed at
\* (cy - rowoff, cx - coloff) and not at the fallback position.
C4_CursorInsideDrawnRows ==
    term = "running" =>
        /\ ed.rowoff <= ed.cy /\ ed.cy < ed.rowoff + DrawnRows(h)
        /\ ed.coloff <= ed.cx /\ ed.cx < ed.coloff + w
        /\ CursorPlaced(ed, h, w)

\* C5 as stated: in every running state, whichever mode is active, the Quit key
\* event ends the session (KeyQuit is the only step that takes it).
C5_QuitAlwaysEnds == term = "running" => ENABLED KeyQuit

\* Whether every character of s is a space.
AllSpaces(s) == \A i \in 1..Len(s) : s[i] = " "

\* The text typed at the prompt with its surrounding spaces removed, stated
\* without strip(): the part of buf between a run of leading spaces and a run of
\* trailing spaces that neither starts nor ends with a space.
Trimmed(buf) ==
    CHOOSE name \in {SubSeq(buf, i, j) : i \in 1..(Len(buf) + 1), j \in 0..Len(buf)} :
        \E i \in 1..(Len(buf) + 1), j \in 0..Len(buf) :
            /\ name = SubSeq(buf, i, j)
            /\ AllSpaces(SubSeq(buf, 1, i - 1))
            /\ AllSpaces(SubSeq(buf, j + 1, Len(buf)))
            /\ name # <<>> => (name[1] # " " /\ name[Len(name)] # " ")

\* lines, cursor, dirty and filename are the same after the step as before it.
DocumentSame ==
    /\ ed'.lines = ed.lines
    /\ ed'.cx = ed.cx
    /\ ed'.cy = ed.cy
    /\ ed'.dirty = ed.dirty
    /\ ed'.filename = ed.filename

C7_PromptLeavesDocument ==
    [][/\ mode' = "Prompting" => DocumentSame
       /\ (mode = "Prompting" /\ mode' = "Prompting") =>
              /\ prompt' = prompt
              /\ \/ buffer' = buffer
                 \/ \E c \in PromptChars : buffer' = Append(buffer, c)
                 \/ buffer # <<>> /\ buffer' = SubSeq(buffer, 1, Len(buffer) - 1)
       /\ PromptEscape =>
              /\ mode' = "Editing"
              /\ term' = "running"
              /\ DocumentSame
              /\ ed'.status_msg[1] \in {"Save cancelled", "Open cancelled"}
    ]_vars

\* Text has been typed at a prompt over an edited buffer whose cursor is not at
\* the origin, where an edit key would change the document.
C7_Witness ==
    /\ mode = "Prompting"
    /\ buffer # <<>>
    /\ ed.dirty
    /\ ed.cx > 0

\* C8 as stated: the session ends only by the Quit key event; no other key and no
\* failure of an open or a save ends it.
C8_OnlyQuitEnds == term \in {"running", "quit"}

\* C9: a failed open (load_file raised) leaves every Editor field but the status
\* and prompt messages as it was: lines, cx, cy, rowoff, coloff, dirty, filename.
C9_FailedOpenUntouched ==
    [][(/\ PromptEnter
        /\ prompt = "Open: "
        /\ term' = "crashed" \/ ed'.status_msg[1] = "Open failed") =>
            /\ \A f \in DOMAIN ed \ {"status_msg", "prompt_msg"} : ed'[f] = ed[f]
            /\ mode' = "Editing"
    ]_vars

\* An open has failed over an edited buffer whose cursor is not at the origin.
C9_Witness ==
    /\ mode = "Editing"
    /\ ed.status_msg[1] = "Open failed"
    /\ ed.dirty
    /\ ed.cx > 0

\* C10: a failed save, immediate or from the prompt, leaves dirty, filename, lines
\* and the cursor as they were.
C10_FailedSaveKeeps ==
    [][(/\ mode' = "Editing"
        /\ ed'.status_msg[1] = "Save failed"
        /\ KeySave \/ PromptEnter) => DocumentSame
    ]_vars

\* A save-as has failed: the buffer is still unnamed and dirty.
C10_Witness ==
    /\ mode = "Editing"
    /\ ed.status_msg[1] = "Save failed"
    /\ ed.filename = None
    /\ ed.dirty

\* C11: a file whose text does not end in a line terminator, opened and saved
\* without an edit, is written back with exactly the text it had.
C11_RoundTrip ==
    (fx.pc = "saved" /\ (fx.raw = <<>> \/ fx.raw[Len(fx.raw)] \notin {NL, CR, FF}))
        => fx.out = fx.raw

\* C12: insert_char(c) followed at once by backspace() gives back the lines and
\* the cursor (cx, cy) that were there before the insert.
C12_InsertBackspaceInverse ==
    (fx.pc = "editor" /\ fx.op0 = "insert_char" /\ fx.op = "backspace")
        => /\ fx.e.lines = fx.e00.lines
           /\ fx.e.cx = fx.e00.cx
           /\ fx.e.cy = fx.e00.cy

\* C12's case: a character was inserted in the middle of a line of a buffer of
\* several lines, then removed.
C12_Witness ==
    /\ fx.pc = "editor"
    /\ fx.op0 = "insert_char"
    /\ fx.op = "backspace"
    /\ Len(fx.e00.lines) > 1
    /\ fx.e00.cx = 1
    /\ fx.e00.cy = 1
    /\ Len(LineAt(fx.e00.lines, 1)) = 2
    /\ fx.e0.lines # fx.e00.lines

\* C13: while editing, the Save key opens the "Save as: " prompt exactly when
\* the buffer has no filename; with a filename it saves to that file at once and
\* the session stays in Editing.  The Open key always opens the "Open: " prompt.
C13_SaveOpenDispatch ==
    [][/\ KeySave =>
            IF ed.filename = None
            THEN mode' = "Prompting" /\ prompt' = "Save as: " /\ buffer' = <<>>
                 /\ DocumentSame
            ELSE /\ mode' = "Editing"
                 /\ ed'.filename = ed.filename
                 /\ ed'.lines = ed.lines
                 /\ \/ ed'.status_msg = <<"Wrote", ed.filename>> /\ ~ed'.dirty
                    \/ ed'.status_msg = <<"Save failed", ed.filename>>
                         /\ ed'.dirty = ed.dirty
       /\ KeyOpen =>
            mode' = "Prompting" /\ prompt' = "Open: " /\ buffer' = <<>>
            /\ DocumentSame]_vars

\* C13's case: the Save key was pressed on a named, modified buffer and the
\* write was attempted at once (a failed "Save as" leaves no filename behind).
C13_Witness ==
    /\ mode = "Editing"
    /\ ed.filename # None
    /\ ed.dirty
    /\ ed.status_msg = <<"Save failed", ed.filename>>

\* Whether `lines` are the lines of the file text `text`: no line holds a line
\* terminator, and joined by "\n" they give the text, up to one final "\n".
IsLinesOf(lines, text) ==
    /\ Len(lines) >= 1
    /\ \A i \in DOMAIN lines : \A j \in DOMAIN lines[i] : lines[i][j] # NL
    /\ \/ to_text(lines) = text
       \/ to_text(lines) \o <<NL>> = text

\* C14: a successful open replaces the buffer by the file's lines (one empty line
\* for an empty file), puts the cursor and the viewport at (0, 0), clears dirty
\* and makes the opened name the buffer's filename, whatever the state before.
\* (A step that leaves the "Open: " prompt with the status "Opened" is a
\* successful open: Escape and an empty name give "Open cancelled", a failure
\* "Open failed" or the end of the session.)
C14_OpenReplaces ==
    [][(/\ mode = "Prompting"
        /\ prompt = "Open: "
        /\ mode' = "Editing"
        /\ term' = "running"
        /\ ed'.status_msg[1] = "Opened") =>
            /\ \E text \in FileTexts : IsLinesOf(ed'.lines, text)
            /\ ed'.cx = 0
            /\ ed'.cy = 0
            /\ ed'.rowoff = 0
            /\ ed'.coloff = 0
            /\ ~ed'.dirty
            /\ ed'.filename = Trimmed(buffer)
            /\ ed'.status_msg[2] = ed'.filename
    ]_vars

\* C14's case: a file of two lines has just been opened.
C14_Witness ==
    /\ mode = "Editing"
    /\ ed.status_msg[1] = "Opened"
    /\ ed.filename = ed.status_msg[2]
    /\ ed.lines = << <<>>, <<"b">> >>
    /\ ~ed.dirty
    /\ ed.cy = 0

\* C15: backspace() at (0, 0) and delete() at the end of the last line change
\* nothing: lines, cx, cy and dirty are as before.
C15_BoundaryNoOps ==
    (/\ fx.pc = "editor"
     /\ \/ fx.op = "backspace" /\ fx.e0.cx = 0 /\ fx.e0.cy = 0
        \/ /\ fx.op = "delete"
           /\ fx.e0.cy = Len(fx.e0.lines) - 1
           /\ fx.e0.cx = Len(LineAt(fx.e0.lines, fx.e0.cy)))
        => /\ fx.e.lines = fx.e0.lines
           /\ fx.e.cx = fx.e0.cx
           /\ fx.e.cy = fx.e0.cy
           /\ fx.e.dirty = fx.e0.dirty

\* C15's case: delete() was called at the end of the last, non-empty line of a
\* clean buffer of several lines.
C15_Witness ==
    /\ fx.pc = "editor"
    /\ fx.op = "delete"
    /\ ~fx.e0.dirty
    /\ Len(fx.e0.lines) > 1
    /\ fx.e0.cy = Len(fx.e0.lines) - 1
    /\ fx.e0.cx = Len(LineAt(fx.e0.lines, fx.e0.cy))
    /\ fx.e0.cx > 0

\* C16: every frame draws its content rows with the viewport offsets that hold
\* the cursor, the same rowoff and coloff the cursor is then placed with, so the
\* cursor's row and column are never above or left of what the frame shows.
C16_FrameUsesFreshOffsets ==
    fx.pc = "editor"
        => /\ fx.frame.rowoff = fx.e.rowoff
           /\ fx.frame.coloff = fx.e.coloff
           /\ fx.frame.rowoff <= fx.e.cy
           /\ fx.frame.coloff <= fx.e.cx

\* The window of the minimal-scroll rule: one row of the screen is reserved, and
\* the window is never smaller than one row and one column.
TextHeight == Max(1, h - 1)

TextWidth == Max(1, w)

\* The offset the minimal-scroll rule gives for cursor coordinate c, offset off
\* and window extent n.
MinimalScroll(c, off, n) ==
    IF off <= c /\ c < off + n THEN off
    ELSE IF c < off THEN c
    ELSE c - n + 1

\* C17: scroll_into_view follows the minimal-scroll rule on each axis: rowoff is
\* kept when rowoff <= cy < rowoff + text_height, becomes cy when cy < rowoff and
\* cy - text_height + 1 when cy >= rowoff + text_height (on a (10, 20) screen
\* with cy = 50 and rowoff = 0 that is 50 - 9 + 1), likewise coloff with cx and
\* text_width; afterwards the cursor is inside the window.
C17_MinimalScroll ==
    fx.pc = "returned"
        => /\ fx.e.rowoff = MinimalScroll(fx.e0.cy, fx.e0.rowoff, TextHeight)
           /\ fx.e.coloff = MinimalScroll(fx.e0.cx, fx.e0.coloff, TextWidth)
           /\ fx.e.rowoff <= fx.e.cy /\ fx.e.cy < fx.e.rowoff + TextHeight
           /\ fx.e.coloff <= fx.e.cx /\ fx.e.cx < fx.e.coloff + TextWidth
           /\ fx.e.cx = fx.e0.cx /\ fx.e.cy = fx.e0.cy
           /\ (h = 10 /\ w = 20 /\ fx.e0.cy = 50 /\ fx.e0.rowoff = 0)
                => fx.e.rowoff = 50 - 9 + 1

\* C17's case: on the (10, 20) screen the call has scrolled down to the cursor in
\* row 50 from offset 0, and left to a cursor that was left of the window.
C17_Witness ==
    /\ fx.pc = "returned"
    /\ h = 10
    /\ w = 20
    /\ fx.e0.cy = 50
    /\ fx.e0.rowoff = 0
    /\ fx.e.rowoff = 42
    /\ fx.e0.cx < fx.e0.coloff
    /\ fx.e.coloff = fx.e.cx

Min(a, b) == IF a <= b THEN a ELSE b

\* C18: after an Up or Down key and the clamp pass of the frame that follows, cx
\* is the smaller of the previous cx and the length of the new current line, and
\* lines and dirty are as before; so Down, Down from a long line over a shorter
\* one to another long one leaves cx at most the shorter line's length.
C18_VerticalMoveClamps ==
    (fx.pc = "editor" /\ fx.op \in {"move_up", "move_down"})
        => /\ fx.e.cy = IF fx.op = "move_up"
                        THEN Max(0, fx.e0.cy - 1)
                        ELSE Min(Len(fx.e0.lines) - 1, fx.e0.cy + 1)
           /\ fx.e.cx = Min(fx.e0.cx, Len(LineAt(fx.e.lines, fx.e.cy)))
           /\ fx.e.lines = fx.e0.lines
           /\ fx.e.dirty = fx.e0.dirty
           /\ fx.op0 \in {"move_up", "move_down"}
                => fx.e.cx = Min(fx.e00.cx, Min(Len(LineAt(fx.e.lines, fx.e0.cy)),
                                                Len(LineAt(fx.e.lines, fx.e.cy))))

\* C18's case: from the end of a line of two characters the cursor went down
\* over an empty line to another line of two characters, and is at column 0.
C18_Witness ==
    /\ fx.pc = "editor"
    /\ fx.op0 = "move_down"
    /\ fx.op = "move_down"
    /\ fx.e00.cy = 0
    /\ fx.e00.cx = 2
    /\ Len(LineAt(fx.e.lines, 1)) = 0
    /\ Len(LineAt(fx.e.lines, 2)) = 2
    /\ fx.e.cy = 2
    /\ fx.e.cx = 0

\* C19: a clean buffer holds exactly the content of the last successful save or
\* load (the initial single empty line before any), and every step that changes
\* lines, a successful load apart, leaves dirty set.
C19_CleanMeansSaved ==
    [][/\ ~ed'.dirty => ed'.lines = saved'
       /\ ed'.lines # ed.lines =>
            \/ ed'.dirty
            \/ /\ PromptEnter
               /\ prompt = "Open: "
               /\ term' = "running"
               /\ ed'.status_msg[1] = "Opened"
               /\ saved' = ed'.lines
       /\ (ed.dirty /\ ~ed'.dirty) => saved' = ed'.lines
    ]_vars

\* C19's case: the buffer was edited, saved, and is clean with the saved content,
\* which is not the initial one.
C19_Witness ==
    /\ hist
    /\ ~ed.dirty
    /\ ed.status_msg[1] = "Wrote"
    /\ ed.lines = saved
    /\ Len(ed.lines) = 2
    /\ ed.cy = 1

\* C20: once a save or an open has succeeded the buffer has a filename for good:
\* a successful save or open leaves one, no step removes it, only a successful
\* open replaces it (by the name opened), and from then on the Save key never
\* opens the prompt but writes to that filename.
C20_FilenamePermanent ==
    [][/\ (term' = "running" /\ ed'.status_msg # ed.status_msg
            /\ ed'.status_msg[1] \in {"Wrote", "Opened"})
            => ed'.filename = ed'.status_msg[2] /\ ed'.filename # None
       /\ ed.filename # None =>
            /\ ed'.filename # None
            /\ ed'.filename # ed.filename =>
                 /\ PromptEnter
                 /\ prompt = "Open: "
                 /\ ed'.status_msg = <<"Opened", ed'.filename>>
            /\ ~(mode' = "Prompting" /\ prompt' = "Save as: ")
            /\ KeySave =>
                 /\ mode' = "Editing"
                 /\ ed'.status_msg[2] = ed.filename
                 /\ ed'.status_msg[1] \in {"Wrote", "Save failed"}
    ]_vars

\* C20's case: a save or an open had succeeded (the buffer is clean, of two
\* lines, and named), and a later Save key went straight to that filename, where
\* the write failed (a failed "Save as" leaves no filename behind).
C20_Witness ==
    /\ mode = "Editing"
    /\ ed.filename = <<"f", "f">>
    /\ ed.status_msg = <<"Save failed", <<"f", "f">> >>
    /\ ed.lines = << <<>>, <<"b">> >>
    /\ ~ed.dirty

====
